---- MODULE Spec2Model ----
(***************************************************************************)
(* The editor client of the visualization service:                         *)
(* frontend/src/components/VisualizationEditor.tsx.                        *)
(*                                                                         *)
(* The component keeps seven pieces of React state.  Three handlers react  *)
(* to the two Select menus and to the Monaco editor; generateVisualization *)
(* is an async function whose synchronous prefix runs on the click, and    *)
(* whose continuation runs when the axios promise settles.  JavaScript     *)
(* runs each synchronous segment to completion, so user events are taken   *)
(* only while no segment is running (pc = "idle"); the individual state    *)
(* updates of generateVisualization are separate steps, one per source    *)
(* line, so that every intermediate state is a state of the model.         *)
(*                                                                         *)
(* An optional JavaScript value (string | undefined) is a sequence of      *)
(* length at most one: << >> is undefined, <<v>> is the value v.           *)
(***************************************************************************)
EXTENDS Naturals, Sequences, FiniteSets, TLC

VARIABLES
    language,           \* useState 'python'                       (line 207)
    vizType,            \* useState 'static'                       (line 208)
    code,               \* useState SAMPLE_CODES[language][vizType] (line 209)
    visualization,      \* useState ''                             (line 210)
    visualizationType,  \* useState ''                             (line 211)
    error,              \* useState ''                             (line 212)
    loading,            \* useState false                          (line 213)
    pc,                 \* line of generateVisualization about to run, or "idle"
    closure,            \* code, language, vizType captured by the running call
    inflight,           \* ids of the POSTs issued and not yet settled
    response,           \* the settled result the continuation works on
    lastRequest,        \* history: the request most recently handed to axios
    event,              \* history: the UI event most recently handled
    clicks,             \* history: number of Generate clicks handled
    posts               \* history: number of POSTs issued

vars == <<language, vizType, code, visualization, visualizationType, error,
          loading, pc, closure, inflight, response, lastRequest, event,
          clicks, posts>>

reactState == <<language, vizType, code, visualization, visualizationType,
                error, loading>>

\* Number of Generate clicks explored.
MaxClicks == 2

-----------------------------------------------------------------------------
(* Values offered by the UI and by the server. *)

\* MenuItem values of the Language Select (lines 291-292).
Languages == {"python", "r"}

\* MenuItem values of the Visualization Type Select (lines 303-305).
VizTypes == {"static", "interactive", "3d"}

\* SAMPLE_CODES (lines 112-204), verbatim.
SAMPLE_CODES ==
    ( "python" :>
        ( "static" :>
            "import numpy as np\n\nx = np.linspace(0, 10, 100)\ny = np.sin(x)\n\nplt.figure(figsize=(10, 6))\nplt.plot(x, y, 'b-', label='sin(x)')\nplt.title('Static Plot Example')\nplt.xlabel('x')\nplt.ylabel('sin(x)')\nplt.grid(True)\nplt.legend()"
       @@ "interactive" :>
            "import numpy as np\n\nx = np.linspace(0, 10, 100)\ny = np.sin(x)\n\nfig = px.line(x=x, y=y, title='Interactive Plot Example')\nfig.update_layout(\n    xaxis_title='x',\n    yaxis_title='sin(x)',\n    showlegend=True\n)"
       @@ "3d" :>
            "import numpy as np\n\nx = np.linspace(-5, 5, 50)\ny = np.linspace(-5, 5, 50)\nX, Y = np.meshgrid(x, y)\nZ = np.sin(np.sqrt(X**2 + Y**2))\n\nfig = go.Figure(data=[go.Surface(z=Z, x=x, y=y)])\nfig.update_layout(\n    title='3D Surface Plot',\n    scene=dict(\n        xaxis_title='X',\n        yaxis_title='Y',\n        zaxis_title='Z'\n    )\n)" )
   @@ "r" :>
        ( "static" :>
            "x <- seq(0, 10, length.out = 100)\ny <- sin(x)\ndf <- data.frame(x = x, y = y)\n\np <- ggplot(df, aes(x = x, y = y)) +\n  geom_line(color = \"blue\") +\n  labs(title = \"Static Plot Example\",\n       x = \"x\",\n       y = \"sin(x)\") +\n  theme_minimal()"
       @@ "interactive" :>
            "x <- seq(0, 10, length.out = 100)\ny <- sin(x)\ndf <- data.frame(x = x, y = y)\n\np <- plot_ly(data = df, x = ~x, y = ~y, type = 'scatter', mode = 'lines')\np$x$layout <- list(\n  title = 'Interactive Plot Example',\n  xaxis = list(title = 'x'),\n  yaxis = list(title = 'sin(x)'),\n  width = 800,\n  height = 600\n)"
       @@ "3d" :>
            "library(plotly)\n\nx <- seq(-5, 5, length.out = 50)\ny <- seq(-5, 5, length.out = 50)\ngrid <- expand.grid(x = x, y = y)\ngrid$z <- sin(sqrt(grid$x^2 + grid$y^2))\n\nz_matrix <- matrix(grid$z, nrow = 50, ncol = 50)\nx_vec <- unique(grid$x)\ny_vec <- unique(grid$y)\n\np <- plot_ly(type = 'surface',\n            x = x_vec,\n            y = y_vec,\n            z = z_matrix,\n            colorscale = 'Viridis')\np$x$layout <- list(\n  title = '3D Surface Plot',\n  scene = list(\n    xaxis = list(title = 'X'),\n    yaxis = list(title = 'Y'),\n    zaxis = list(title = 'Z')\n  ),\n  width = 800,\n  height = 600\n)" ) )

\* undefined, and a defined value v, of an optional JavaScript value.
Undefined == << >>
Some(v) == <<v>>

\* Texts a user types into the Monaco editor.
UserCodes == {"", "plt.plot([1, 2, 3])"}

\* Arguments of the editor's onChange: string | undefined (line 235).
CodeChangeValues == {Undefined} \cup {Some(c) : c \in UserCodes}

\* Values of response.data.type: the two wire types, another string, or no
\* such field (interface VisualizationResponse, lines 21-24).
ResponseTypes == {Undefined, Some("image"), Some("html"), Some("text")}

\* Values of response.data.content: empty, base64 PNG bytes, a document.
Contents == {"", "iVBORw0KGgo=", "<!DOCTYPE html><html></html>"}

\* Values of err.response.data.detail: absent, empty, a message.
Details == {Undefined, Some(""), Some("Unsupported language")}

\* What the awaited axios.post (line 248) can settle to.  A 2xx status
\* fulfils the promise with response.data the parsed body: an object, or
\* null.  Any other status rejects it with err.response set; a network
\* error rejects it with err.response undefined.
Fulfilled(t, c) ==
    [state |-> "fulfilled", hasResponse |-> TRUE, hasData |-> TRUE,
     type |-> t, content |-> c, detail |-> Undefined]
FulfilledNull ==
    [state |-> "fulfilled", hasResponse |-> TRUE, hasData |-> FALSE,
     type |-> Undefined, content |-> "", detail |-> Undefined]
Rejected(d) ==
    [state |-> "rejected", hasResponse |-> TRUE, hasData |-> TRUE,
     type |-> Undefined, content |-> "", detail |-> d]
RejectedNoBody ==
    [state |-> "rejected", hasResponse |-> TRUE, hasData |-> FALSE,
     type |-> Undefined, content |-> "", detail |-> Undefined]
NetworkError ==
    [state |-> "rejected", hasResponse |-> FALSE, hasData |-> FALSE,
     type |-> Undefined, content |-> "", detail |-> Undefined]
\* The TypeError raised by reading response.data.type of a null body
\* (line 254); it carries no response property.
TypeError ==
    [state |-> "thrown", hasResponse |-> FALSE, hasData |-> FALSE,
     type |-> Undefined, content |-> "", detail |-> Undefined]

Responses ==
    {Fulfilled(t, c) : t \in ResponseTypes, c \in Contents}
        \cup {FulfilledNull}
        \cup {Rejected(d) : d \in Details}
        \cup {RejectedNoBody, NetworkError}

-----------------------------------------------------------------------------
(* Pure parts of generateVisualization and of the render. *)

\* Mutant of RequestBody: the viz type sent under the state variable's name.
RequestBodyCamelCase(c, l, v) == [code |-> c, language |-> l, vizType |-> v]

\* The second argument of axios.post (lines 248-252).
RequestBody(c, l, v) == [code |-> c, language |-> l, viz_type |-> v]

\* The call axios.post(url, body) (line 248).
Request(c, l, v) ==
    [method |-> "POST",
     url |-> "http://localhost:8000/generate-visualization",
     body |-> RequestBody(c, l, v)]

\* Mutant of Branch: the html test dropped, every other type shown as html.
BranchElseHtml(r) ==
    IF ~r.hasData THEN "throw"
    ELSE IF r.type = Some("image") THEN "image"
    ELSE "html"

\* The if / else if / else on response.data.type (lines 254-262).
Branch(r) ==
    IF ~r.hasData THEN "throw"
    ELSE IF r.type = Some("image") THEN "image"
    ELSE IF r.type = Some("html") THEN "html"
    ELSE "none"

\* Mutant of ErrorText: ?? in place of ||, so an empty detail is kept.
ErrorTextNullish(r) ==
    LET detail == IF r.hasResponse /\ r.hasData THEN r.detail ELSE Undefined
    IN  IF detail # Undefined THEN detail[1] ELSE "An error occurred"

\* err.response?.data?.detail || 'An error occurred' (line 264).
ErrorText(r) ==
    LET detail == IF r.hasResponse /\ r.hasData THEN r.detail ELSE Undefined
    IN  IF detail # Undefined /\ detail[1] # "" THEN detail[1]
        ELSE "An error occurred"

\* Mutant of ButtonEnabled: the disabled attribute left out.
ButtonAlwaysEnabled == TRUE

\* disabled={loading} on the Generate button (line 312).
ButtonEnabled == ~loading

\* {error && <ErrorMessage>} (lines 340-344).
ShowsError == error # ""

\* {visualization && <StyledPaper>} (lines 346-380).
ShowsVisualization == visualization # ""

\* The element rendered for the visualization (lines 346-380): nothing, an
\* <img> whose src is a data URI, or a sandboxed <iframe>.
RenderedVisualization ==
    IF visualization = "" THEN Undefined
    ELSE IF visualizationType = "image"
         THEN Some([tag |-> "img",
                    content |-> "data:image/png;base64," \o visualization,
                    sandbox |-> ""])
         ELSE Some([tag |-> "iframe",
                    content |-> visualization,
                    sandbox |-> "allow-scripts allow-same-origin allow-popups"])

-----------------------------------------------------------------------------
(* The state machine. *)

NoEvent == [kind |-> "none", value |-> Undefined]

Init ==
    /\ language = "python"
    /\ vizType = "static"
    /\ code = SAMPLE_CODES["python"]["static"]
    /\ visualization = ""
    /\ visualizationType = ""
    /\ error = ""
    /\ loading = FALSE
    /\ pc = "idle"
    /\ closure = [code |-> SAMPLE_CODES["python"]["static"],
                  language |-> "python", vizType |-> "static"]
    /\ inflight = {}
    /\ response = Undefined
    /\ lastRequest = Undefined
    /\ event = NoEvent
    /\ clicks = 0
    /\ posts = 0

\* Mutant of handleLanguageChange: the sample is looked up with the language
\* of the current render instead of the new one.
handleLanguageChangeStale ==
    /\ pc = "idle"
    /\ \E newLanguage \in Languages :
        /\ language' = newLanguage
        /\ code' = SAMPLE_CODES[language][vizType]
        /\ event' = [kind |-> "language", value |-> Some(newLanguage)]
    /\ UNCHANGED <<vizType, visualization, visualizationType, error, loading,
                   pc, closure, inflight, response, lastRequest, clicks, posts>>

\* handleLanguageChange (lines 223-227).
handleLanguageChange ==
    /\ pc = "idle"
    /\ \E newLanguage \in Languages :
        /\ language' = newLanguage
        /\ code' = SAMPLE_CODES[newLanguage][vizType]
        /\ event' = [kind |-> "language", value |-> Some(newLanguage)]
    /\ UNCHANGED <<vizType, visualization, visualizationType, error, loading,
                   pc, closure, inflight, response, lastRequest, clicks, posts>>

\* handleVizTypeChange (lines 229-233).
handleVizTypeChange ==
    /\ pc = "idle"
    /\ \E newType \in VizTypes :
        /\ vizType' = newType
        /\ code' = SAMPLE_CODES[language][newType]
        /\ event' = [kind |-> "vizType", value |-> Some(newType)]
    /\ UNCHANGED <<language, visualization, visualizationType, error, loading,
                   pc, closure, inflight, response, lastRequest, clicks, posts>>

\* handleCodeChange (lines 235-239).
handleCodeChange ==
    /\ pc = "idle"
    /\ \E value \in CodeChangeValues :
        /\ code' = IF value # Undefined THEN value[1] ELSE code
        /\ event' = [kind |-> "code", value |-> value]
    /\ UNCHANGED <<language, vizType, visualization, visualizationType, error,
                   loading, pc, closure, inflight, response, lastRequest,
                   clicks, posts>>

\* A click on Generate: generateVisualization is called with the code,
\* language and vizType of the current render, and sets loading (line 242).
GV_Start ==
    /\ pc = "idle"
    /\ ButtonEnabled
    /\ clicks < MaxClicks
    /\ loading' = TRUE
    /\ closure' = [code |-> code, language |-> language, vizType |-> vizType]
    /\ event' = [kind |-> "generate", value |-> Undefined]
    /\ clicks' = clicks + 1
    /\ pc' = "l243"
    /\ UNCHANGED <<language, vizType, code, visualization, visualizationType,
                   error, inflight, response, lastRequest, posts>>

\* Mutant of GV_ClearError: the error of the previous call is not cleared.
GV_ClearErrorSkipped ==
    /\ pc = "l243"
    /\ pc' = "l244"
    /\ UNCHANGED <<reactState, closure, inflight, response, lastRequest, event,
                   clicks, posts>>

\* setError('') (line 243).
GV_ClearError ==
    /\ pc = "l243"
    /\ error' = ""
    /\ pc' = "l244"
    /\ UNCHANGED <<language, vizType, code, visualization, visualizationType,
                   loading, closure, inflight, response, lastRequest, event,
                   clicks, posts>>

\* Mutant of GV_ClearVisualization: the type is cleared in place of the
\* content.
GV_ClearVisualizationWrongSetter ==
    /\ pc = "l244"
    /\ visualizationType' = ""
    /\ pc' = "l245"
    /\ UNCHANGED <<language, vizType, code, visualization, error, loading,
                   closure, inflight, response, lastRequest, event, clicks,
                   posts>>

\* setVisualization('') (line 244).
GV_ClearVisualization ==
    /\ pc = "l244"
    /\ visualization' = ""
    /\ pc' = "l245"
    /\ UNCHANGED <<language, vizType, code, visualizationType, error, loading,
                   closure, inflight, response, lastRequest, event, clicks,
                   posts>>

\* setVisualizationType('') (line 245).
GV_ClearVisualizationType ==
    /\ pc = "l245"
    /\ visualizationType' = ""
    /\ pc' = "l248"
    /\ UNCHANGED <<language, vizType, code, visualization, error, loading,
                   closure, inflight, response, lastRequest, event, clicks,
                   posts>>

\* axios.post(...) is called and awaited (lines 248-252): the request
\* leaves, and the function is suspended until the promise settles.
GV_Post ==
    /\ pc = "l248"
    /\ lastRequest' =
           Some(Request(closure.code, closure.language, closure.vizType))
    /\ posts' = posts + 1
    /\ inflight' = inflight \cup {posts + 1}
    /\ pc' = "idle"
    /\ UNCHANGED <<reactState, closure, response, event, clicks>>

\* The promise of a pending POST settles and the function resumes: after
\* the await when fulfilled (line 254), in the catch when rejected (263).
GV_Settle ==
    /\ pc = "idle"
    /\ \E id \in inflight, r \in Responses :
        /\ inflight' = inflight \ {id}
        /\ response' = Some(r)
        /\ pc' = IF r.state = "fulfilled" THEN "l254" ELSE "l264"
    /\ UNCHANGED <<reactState, closure, lastRequest, event, clicks, posts>>

\* The tests on response.data.type (lines 254, 257, 260); reading the type
\* of a null body throws into the catch (line 263).
GV_Branch ==
    /\ pc = "l254"
    /\ LET b == Branch(response[1])
       IN  /\ pc' = CASE b = "image" -> "l255"
                      [] b = "html"  -> "l258"
                      [] b = "none"  -> "l261"
                      [] b = "throw" -> "l264"
           /\ response' = IF b = "throw" THEN Some(TypeError) ELSE response
    /\ UNCHANGED <<reactState, closure, inflight, lastRequest, event, clicks,
                   posts>>

\* setVisualizationType('image') (line 255).
GV_SetTypeImage ==
    /\ pc = "l255"
    /\ visualizationType' = "image"
    /\ pc' = "l256"
    /\ UNCHANGED <<language, vizType, code, visualization, error, loading,
                   closure, inflight, response, lastRequest, event, clicks,
                   posts>>

\* setVisualization(response.data.content) (line 256).
GV_SetVisualizationImage ==
    /\ pc = "l256"
    /\ visualization' = response[1].content
    /\ pc' = "l266"
    /\ UNCHANGED <<language, vizType, code, visualizationType, error, loading,
                   closure, inflight, response, lastRequest, event, clicks,
                   posts>>

\* setVisualizationType('html') (line 258).
GV_SetTypeHtml ==
    /\ pc = "l258"
    /\ visualizationType' = "html"
    /\ pc' = "l259"
    /\ UNCHANGED <<language, vizType, code, visualization, error, loading,
                   closure, inflight, response, lastRequest, event, clicks,
                   posts>>

\* setVisualization(response.data.content) (line 259).
GV_SetVisualizationHtml ==
    /\ pc = "l259"
    /\ visualization' = response[1].content
    /\ pc' = "l266"
    /\ UNCHANGED <<language, vizType, code, visualizationType, error, loading,
                   closure, inflight, response, lastRequest, event, clicks,
                   posts>>

\* setError('No visualization was generated') (line 261).
GV_SetErrorNoViz ==
    /\ pc = "l261"
    /\ error' = "No visualization was generated"
    /\ pc' = "l266"
    /\ UNCHANGED <<language, vizType, code, visualization, visualizationType,
                   loading, closure, inflight, response, lastRequest, event,
                   clicks, posts>>

\* Mutant of GV_Catch: setLoading(false) at the end of the try block and not
\* in a finally, so that the catch path returns without it.
GV_CatchWithoutFinally ==
    /\ pc = "l264"
    /\ error' = ErrorText(response[1])
    /\ pc' = "idle"
    /\ UNCHANGED <<language, vizType, code, visualization, visualizationType,
                   loading, closure, inflight, response, lastRequest, event,
                   clicks, posts>>

\* catch (err): setError(...) (lines 263-264).
GV_Catch ==
    /\ pc = "l264"
    /\ error' = ErrorText(response[1])
    /\ pc' = "l266"
    /\ UNCHANGED <<language, vizType, code, visualization, visualizationType,
                   loading, closure, inflight, response, lastRequest, event,
                   clicks, posts>>

\* finally: setLoading(false) (lines 265-267); the call returns.
GV_Finally ==
    /\ pc = "l266"
    /\ loading' = FALSE
    /\ pc' = "idle"
    /\ UNCHANGED <<language, vizType, code, visualization, visualizationType,
                   error, closure, inflight, response, lastRequest, event,
                   clicks, posts>>

\* The steps that carry a started generateVisualization to its end.
GV_Continue ==
    \/ GV_ClearError
    \/ GV_ClearVisualization
    \/ GV_ClearVisualizationType
    \/ GV_Post
    \/ GV_Settle
    \/ GV_Branch
    \/ GV_SetTypeImage
    \/ GV_SetVisualizationImage
    \/ GV_SetTypeHtml
    \/ GV_SetVisualizationHtml
    \/ GV_SetErrorNoViz
    \/ GV_Catch
    \/ GV_Finally

Next ==
    \/ handleLanguageChange
    \/ handleVizTypeChange
    \/ handleCodeChange
    \/ GV_Start
    \/ GV_Continue

Spec == Init /\ [][Next]_vars

\* A segment of JavaScript that has started runs on, and every POST settles.
FairSpec == Spec /\ WF_vars(GV_Continue)

-----------------------------------------------------------------------------
(* The claims. *)

\* The most recent generateVisualization call has returned.
Handled == pc = "idle" /\ ~loading /\ response # Undefined

\* The response handled last was a 2xx response with an object body.
HandledObject ==
    Handled /\ response[1].state = "fulfilled" /\ response[1].hasData

\* The request handled last failed: a non-2xx status or a network error.
HandledFailure == Handled /\ response[1].state = "rejected"

\* err.response?.data?.detail of the failure handled last.
FailureDetail ==
    IF response[1].hasResponse /\ response[1].hasData
    THEN response[1].detail ELSE Undefined

\* C1: every request sent is a POST to /generate-visualization whose body
\* has exactly the fields code, language and viz_type, with language in
\* {python, r} and viz_type in {static, interactive, 3d}, each equal to the
\* editor's state at the moment Generate was clicked.
C1_RequestContract ==
    /\ [][pc = "idle" /\ pc' = "l243" =>
            closure' = [code |-> code, language |-> language,
                        vizType |-> vizType]]_vars
    /\ [](lastRequest # Undefined /\ pc \in {"idle", "l254", "l255", "l256",
                                   "l258", "l259", "l261", "l264", "l266"} =>
            /\ lastRequest[1].method = "POST"
            /\ lastRequest[1].url
                   = "http://localhost:8000/generate-visualization"
            /\ DOMAIN lastRequest[1].body = {"code", "language", "viz_type"}
            /\ lastRequest[1].body.language \in Languages
            /\ lastRequest[1].body.viz_type \in VizTypes
            /\ lastRequest[1].body.code = closure.code
            /\ lastRequest[1].body.language = closure.language
            /\ lastRequest[1].body.viz_type = closure.vizType)

\* C1 witness: a request carrying text the user typed, for R and 3d, was sent
\* and the editor was changed while it was pending.
C1_Witness ==
    /\ inflight # {}
    /\ lastRequest # Undefined
    /\ lastRequest[1].body.code = "plt.plot([1, 2, 3])"
    /\ lastRequest[1].body.language = "r"
    /\ lastRequest[1].body.viz_type = "3d"
    /\ language = "python"
    /\ code # "plt.plot([1, 2, 3])"

\* C2: for every successful response the displayed result is determined by
\* its type: type image sets visualizationType to 'image' and visualization
\* to the content and is rendered as an <img> data URI; type html sets
\* visualizationType to 'html' and visualization to the content and is
\* rendered inside a sandboxed iframe; in both cases error stays empty.
C2_SuccessDisplayed ==
    HandledObject /\ response[1].type \in {Some("image"), Some("html")} =>
        /\ visualizationType = response[1].type[1]
        /\ visualization = response[1].content
        /\ error = ""
        /\ RenderedVisualization =
             IF response[1].type = Some("image")
             THEN Some([tag |-> "img",
                        content |-> "data:image/png;base64,"
                                        \o response[1].content,
                        sandbox |-> ""])
             ELSE Some([tag |-> "iframe",
                        content |-> response[1].content,
                        sandbox |->
                            "allow-scripts allow-same-origin allow-popups"])

\* C3 as stated: when a request fails, error becomes the response's detail
\* string when one is present and 'An error occurred' otherwise, so it is
\* non-empty, and visualization and visualizationType remain empty.
C3_DetailWhenPresent ==
    HandledFailure =>
        /\ error = IF FailureDetail # Undefined THEN FailureDetail[1]
                   ELSE "An error occurred"
        /\ error # ""
        /\ visualization = ""
        /\ visualizationType = ""

\* C3 amended: when a request fails, error becomes the response's detail
\* string when one is present and not empty, and 'An error occurred'
\* otherwise, so it is non-empty and shown, and visualization and
\* visualizationType remain empty.
C3_DetailWhenNonEmpty ==
    HandledFailure =>
        /\ error = IF FailureDetail # Undefined /\ FailureDetail[1] # ""
                   THEN FailureDetail[1] ELSE "An error occurred"
        /\ error # ""
        /\ ShowsError
        /\ visualization = ""
        /\ visualizationType = ""

\* C3 witness: a failure with a detail string has been handled.
C3_Witness ==
    /\ HandledFailure
    /\ FailureDetail = Some("Unsupported language")
    /\ error = "Unsupported language"

\* C4: once the response of a generate request has been handled, the editor
\* shows exactly one of a visualization or an error message, never both and
\* never neither, whatever the response was.
C4_ExactlyOneShown ==
    Handled => (ShowsVisualization /\ ~ShowsError)
                   \/ (ShowsError /\ ~ShowsVisualization)

\* C5: a 2xx response whose type is neither 'image' nor 'html' is treated as
\* a failure: error becomes 'No visualization was generated' and
\* visualization and visualizationType stay empty, whatever the content.
C5_UnknownTypeIsFailure ==
    HandledObject /\ response[1].type \notin {Some("image"), Some("html")} =>
        /\ error = "No visualization was generated"
        /\ visualization = ""
        /\ visualizationType = ""

\* C5 witness: a response of another type with content has been handled.
C5_Witness ==
    /\ HandledObject
    /\ response[1].type = Some("text")
    /\ response[1].content # ""
    /\ error = "No visualization was generated"

\* C6: at most one generate request is in flight at any time: a request is
\* pending only while loading is true, every POST answers one click, and no
\* request is sent without a click, also after a failure.
C6_SingleRequestInFlight ==
    /\ Cardinality(inflight) <= 1
    /\ inflight # {} => loading
    /\ posts <= clicks
    /\ clicks <= posts + 1
    /\ pc \in {"idle", "l254", "l255", "l256", "l258", "l259", "l261",
               "l264", "l266"} => posts = clicks
    /\ Handled => inflight = {}

\* C6 witness: after a failed request, a second one is pending.
C6_Witness ==
    /\ inflight # {}
    /\ posts = 2
    /\ response # Undefined
    /\ response[1].state = "rejected"

\* C7: loading is true exactly while a generateVisualization call is under
\* way (from the click to the handling of the response), and once true it
\* eventually returns to false on every path.
C7_LoadingTracksRequest ==
    /\ [](loading <=> (pc # "idle" \/ inflight # {}))
    /\ (loading ~> ~loading)

\* C7 witness: loading is back to false after a rejected request.
C7_Witness ==
    /\ HandledFailure
    /\ inflight = {}
    /\ posts = 1

\* C8: from the moment the POST is issued until its response is handled,
\* error, visualization and visualizationType are all empty.
C8_OutcomeClearedWhilePending ==
    pc = "l248" \/ inflight # {} =>
        /\ error = ""
        /\ visualization = ""
        /\ visualizationType = ""

\* C8 witness: a request is pending after an earlier one had its document
\* displayed, and nothing of that outcome is left.
C8_Witness ==
    /\ inflight # {}
    /\ posts = 2
    /\ response # Undefined
    /\ response[1].type = Some("html")
    /\ response[1].content # ""
    /\ visualization = ""

\* A step that handles a Select or an editor event: no other step goes from
\* idle to idle while leaving the pending requests alone.
UIEventStep == pc = "idle" /\ pc' = "idle" /\ inflight' = inflight

\* C9: a language or viz-type change sets code to the sample of the new
\* (language, vizType) pair and leaves the other selection, loading, error,
\* visualization and visualizationType unchanged; a code-change event with
\* an undefined value leaves code unchanged.
C9_SelectionLoadsSample ==
    [][UIEventStep =>
        /\ event'.kind = "language" =>
             /\ language' = event'.value[1]
             /\ code' = SAMPLE_CODES[language'][vizType']
             /\ UNCHANGED <<vizType, loading, error, visualization,
                            visualizationType>>
        /\ event'.kind = "vizType" =>
             /\ vizType' = event'.value[1]
             /\ code' = SAMPLE_CODES[language'][vizType']
             /\ UNCHANGED <<language, loading, error, visualization,
                            visualizationType>>
        /\ event'.kind = "code" =>
             code' = IF event'.value = Undefined THEN code
                     ELSE event'.value[1]]_vars

\* C9 witness: the user's text was sent, and a language change made while
\* the request is pending has replaced it by the sample.
C9_Witness ==
    /\ event = [kind |-> "language", value |-> Some("r")]
    /\ inflight # {}
    /\ closure.code = "plt.plot([1, 2, 3])"
    /\ closure.language = "python"
    /\ code = SAMPLE_CODES["r"][vizType]

\* C10: in every state, the states between the individual updates of
\* generateVisualization included, a non-empty visualization comes with a
\* visualizationType of 'image' or 'html' that is the type of the response
\* that supplied the content, so it is rendered by the element of its type.
C10_TypeMatchesContent ==
    visualization # "" =>
        /\ visualizationType \in {"image", "html"}
        /\ response # Undefined
        /\ response[1].type = Some(visualizationType)
        /\ response[1].content = visualization
        /\ RenderedVisualization[1].tag =
               IF response[1].type = Some("image") THEN "img" ELSE "iframe"

\* C10 witness: a second call has cleared the error and not yet the
\* visualization of the first.
C10_Witness ==
    /\ pc = "l244"
    /\ visualization # ""
    /\ visualizationType = "html"

====
